---- MODULE Spec2Model ----
(***************************************************************************)
(* Model of the tunnel lifecycle manager (internal/tunnel/manager.go,      *)
(* internal/tunnel/wireguard.go) and of the dynamic scaling controller's   *)
(* decision function (dynamic-scaling.go) of aws-cloud-mole, with the      *)
(* instance tier selection (SelectOptimalInstance,                         *)
(* GetOptimalGravitonInstance) and the bottleneck classifier of the        *)
(* network prober (internal/network/prober.go) as pure functions, and the  *)
(* phased ClusterManager (phased-scaling-architecture.go).                 *)
(*                                                                         *)
(* The goroutine of MonitorPerformance is a process of its own: it takes   *)
(* tm.mu.RLock() for one pass over the tunnels and sends on a channel of   *)
(* capacity 10 inside the pass.                                            *)
(*                                                                         *)
(* TunnelScaler.Start launches scalingLoop and metricsCollection as two    *)
(* goroutines.  collectMetrics and evaluateScaling hold ts.metrics.mu for  *)
(* their whole body and are one step each; executeScaling releases the     *)
(* lock after stamping LastScaleAction and is a sequence of steps.         *)
(*                                                                         *)
(* Every public operation of TunnelManager takes tm.mu for its whole body  *)
(* (Lock / defer Unlock), so concurrent callers serialise and each         *)
(* operation is one atomic action here.  The outcome of every host         *)
(* interaction (key generation, config file write, wg-quick up/down,       *)
(* os.Remove) is an input of the action.                                   *)
(***************************************************************************)
EXTENDS Integers, Sequences, FiniteSets, TLC

VARIABLES
    config,     \* tm.config: MinTunnels, MaxTunnels, ListenPort
    tunnels,    \* tm.tunnels: map id -> WireGuardTunnel
    files,      \* config files present under /tmp
    last,       \* the most recent call: op, arg, err, tm.tunnels before it, driver calls
    prev,       \* the call before it: op, err, keys of tm.tunnels before it
    addRun,     \* errors returned so far, while every call was AddTunnel on a working driver
    scenario,   \* TRUE while addRun still describes the whole run
    metrics,    \* ts.metrics of the TunnelScaler
    now,        \* time.Now(), in units of ScaleInterval (30 s)
    decision,   \* the ScalingAction returned by the last evaluateScaling
    seen,       \* the metrics and the time that evaluateScaling call read
    sel,        \* one tier selection: throughput, budget and the tiers returned
    probe,      \* np.results of the NetworkProber: link speed, bandwidths, bottleneck
    cluster,    \* the ClusterManager: phase, instances, tunnelManager, config; the host's clock
    scaleUp,    \* the most recent ClusterManager.ScaleUp call
    monitor,    \* the MonitorPerformance goroutine, its channel and consumer, a call waiting for tm.mu
    ctl         \* the TunnelScaler's goroutines, stopCh, scalingDecision, and the actions executed

vars == <<config, tunnels, files, last, prev, addRun, scenario, metrics, now, decision, seen,
          sel, probe, cluster, scaleUp, monitor, ctl>>
mgrVars == <<config, tunnels, files, last, prev, addRun, scenario>>
scalerVars == <<metrics, now, decision, seen>>
pureVars == <<sel, probe>>
clusterVars == <<cluster, scaleUp>>

(***************************************************************************)
(* Bounds of the exploration.                                              *)
(***************************************************************************)
MaxCfgTunnels == 3      \* largest max_tunnels a manager is built with
MaxCfgMin == 2          \* largest min_tunnels a manager is built with
RunLen == 4             \* length of the recorded AddTunnel run
MaxNow == 5             \* latest time at which a decision is evaluated
MaxElephants == 9       \* largest elephant-flow count in the metrics
MaxBursts == 3          \* largest number of recorded burst events
MaxLinkSpeed == 24      \* largest link speed the classifier is run on
MaxBaseline == 13       \* largest baseline bandwidth the classifier is run on
MaxBurstBandwidth == 27 \* largest burst bandwidth the classifier is run on
MaxClock == 2           \* latest second at which ClusterManager.ScaleUp is called
MaxTime == 5            \* latest time, in scale intervals, the controller loop runs to
MaxCollects == 2        \* most collectMetrics runs of the collector
MaxStartTunnels == 2    \* most tunnels the manager holds when the controller starts
MaxFreeSlots == 1       \* most free slots of scalingDecision when the observation starts

(***************************************************************************)
(* Program constants.                                                      *)
(***************************************************************************)
ListenPort == 51820
\* The default ScalingConfig of NewTunnelScaler; durations in units of
\* ScaleInterval (30 s), thresholds in percent.
ScalerMinTunnels == 1
ScalerMaxTunnels == 8
ScaleUpThreshold == 80
ScaleDownThreshold == 30
ScaleUpCooldown == 4
ScaleDownCooldown == 20
BurstDetectionWindow == 10
\* make(chan TunnelMetrics, 10) of MonitorPerformance
MetricsChanCap == 10
\* make(chan ScalingAction, 10) of NewTunnelScaler
ScalingDecisionCap == 10
\* Throughputs of collectMetrics in MiB/s: the elephant-flow threshold, the
\* assumed capacity of one tunnel, the burst threshold of detectBurstEvent.
ElephantFlowThreshold == 100
TunnelCapacity == 1500
BurstThreshold == 1050

Min2(a, b) == IF a < b THEN a ELSE b

----------------------------------------------------------------------------
(***************************************************************************)
(* Errors.  Go errors are formatted strings; the model keeps the message   *)
(* template in kind and the formatted numbers in a and b.                  *)
(***************************************************************************)
Err(kind, a, b) == [kind |-> kind, a |-> a, b |-> b]
Nil == Err("nil", 0, 0)
ErrExceedsMax(count, max) == Err("requested tunnel count exceeds maximum", count, max)
ErrAtMax(max) == Err("maximum tunnel count reached", max, 0)
ErrAtMin(min) == Err("minimum tunnel count reached", min, 0)
ErrNotExist(id) == Err("tunnel does not exist", id, 0)
ErrKeys == Err("failed to generate WireGuard keys", 0, 0)
ErrWriteConfig == Err("failed to create WireGuard interface: failed to write WireGuard config", 0, 0)
ErrBringUp == Err("failed to create WireGuard interface: failed to bring up WireGuard interface", 0, 0)
ErrBringDown == Err("failed to destroy WireGuard interface: failed to bring down WireGuard interface", 0, 0)
ErrCreateTunnel(i, cause) == Err("failed to create tunnel: " \o cause.kind, i, 0)

\* What the host can answer to one createTunnel / one destroyTunnel.
UpOutcomes == {"ok", "keys", "write", "up"}
DownOutcomes == {"ok", "ok-file-left", "down"}

InterfaceName(id) == <<"wg", id>>
ConfigFile(iface) == <<"/tmp/", iface, ".conf">>

\* calculateTunnelIP with the third octet off by one.
calculateTunnelIP_id(tunnelID) == [octets |-> <<10, 100, tunnelID, 1>>, prefix |-> 24]

\* fmt.Sprintf("10.100.%d.1/24", tunnelID+1) as <<octets, prefix length>>
calculateTunnelIP(tunnelID) == [octets |-> <<10, 100, tunnelID + 1, 1>>, prefix |-> 24]

\* The host state an operation threads through its steps.
Host(t, f, c) == [tunnels |-> t, files |-> f, calls |-> c]

\* GenerateWireGuardKeys: rand.Read may fail; the key material itself is not
\* read by any lifecycle decision and is left out of the tunnel record.
generateWireGuardKeys(out) == IF out = "keys" THEN ErrKeys ELSE Nil

\* CreateWireGuardInterface: write /tmp/<iface>.conf, then wg-quick up.
CreateWireGuardInterface(h, iface, out) ==
    IF out = "write"
    THEN [host |-> h, err |-> ErrWriteConfig]
    ELSE LET h2 == Host(h.tunnels, h.files \cup {ConfigFile(iface)},
                        Append(h.calls, <<"up", iface>>))
         IN  [host |-> h2, err |-> IF out = "up" THEN ErrBringUp ELSE Nil]

\* DestroyWireGuardInterface: wg-quick down, then os.Remove (failure only logged).
DestroyWireGuardInterface(h, iface, out) ==
    LET called == Append(h.calls, <<"down", iface>>)
    IN  IF out = "down"
        THEN [host |-> Host(h.tunnels, h.files, called), err |-> ErrBringDown]
        ELSE [host |-> Host(h.tunnels,
                            IF out = "ok" THEN h.files \ {ConfigFile(iface)} ELSE h.files,
                            called),
              err |-> Nil]

\* configureInterface: returns the configured tunnel, the host and the error.
configureInterface(h, tunnel, out) ==
    LET tunnelIP == calculateTunnelIP(tunnel.ID)
        r == CreateWireGuardInterface(h, tunnel.Interface, out)
    IN  IF r.err # Nil
        THEN [host |-> r.host, tunnel |-> tunnel, err |-> r.err]
        ELSE [host |-> r.host,
              tunnel |-> [tunnel EXCEPT !.State = "active", !.EndpointIP = tunnelIP],
              err |-> Nil]

\* teardownInterface
teardownInterface(h, tunnel, out) ==
    LET r == DestroyWireGuardInterface(h, tunnel.Interface, out)
    IN  IF r.err # Nil
        THEN [host |-> r.host, tunnel |-> tunnel, err |-> r.err]
        ELSE [host |-> r.host, tunnel |-> [tunnel EXCEPT !.State = "inactive"], err |-> Nil]

\* tm.tunnels[id] = tunnel
MapPut(m, id, t) == [i \in (DOMAIN m) \cup {id} |-> IF i = id THEN t ELSE m[i]]
\* delete(tm.tunnels, id)
MapDelete(m, id) == [i \in (DOMAIN m) \ {id} |-> m[i]]

\* createTunnel that puts the tunnel in the map before it configures the
\* interface.
createTunnel_early(h, id, out) ==
    LET tunnel == [ID |-> id,
                   Interface |-> InterfaceName(id),
                   Port |-> config.ListenPort + id,
                   State |-> "inactive",
                   EndpointIP |-> [octets |-> <<>>, prefix |-> 0]]
        k == generateWireGuardKeys(out)
        c == configureInterface(h, tunnel, out)
    IN  IF k # Nil THEN [host |-> h, err |-> k]
        ELSE [host |-> Host(MapPut(c.host.tunnels, id, c.tunnel), c.host.files, c.host.calls),
              err |-> c.err]

\* createTunnel(id)
createTunnel(h, id, out) ==
    LET tunnel == [ID |-> id,
                   Interface |-> InterfaceName(id),
                   Port |-> config.ListenPort + id,
                   State |-> "inactive",
                   EndpointIP |-> [octets |-> <<>>, prefix |-> 0]]
        k == generateWireGuardKeys(out)
        c == configureInterface(h, tunnel, out)
    IN  IF k # Nil THEN [host |-> h, err |-> k]
        ELSE IF c.err # Nil THEN [host |-> c.host, err |-> c.err]
        ELSE [host |-> Host(MapPut(c.host.tunnels, id, c.tunnel), c.host.files, c.host.calls),
              err |-> Nil]

\* destroyTunnel that tears the interface down and forgets the delete.
destroyTunnel_nodelete(h, id, out) ==
    IF id \notin DOMAIN h.tunnels
    THEN [host |-> h, err |-> ErrNotExist(id)]
    ELSE LET t == teardownInterface(h, h.tunnels[id], out)
         IN  [host |-> t.host, err |-> t.err]

\* destroyTunnel(id)
destroyTunnel(h, id, out) ==
    IF id \notin DOMAIN h.tunnels
    THEN [host |-> h, err |-> ErrNotExist(id)]
    ELSE LET t == teardownInterface(h, h.tunnels[id], out)
         IN  IF t.err # Nil THEN [host |-> t.host, err |-> t.err]
             ELSE [host |-> Host(MapDelete(t.host.tunnels, id), t.host.files, t.host.calls),
                   err |-> Nil]

\* The loop of CreateTunnels from index i on; outs[i] is the host's answer
\* to createTunnel(i).
RECURSIVE createLoop(_, _, _, _)
createLoop(h, i, count, outs) ==
    IF i >= count THEN [host |-> h, err |-> Nil]
    ELSE LET r == createTunnel(h, i, outs[i])
         IN  IF r.err # Nil
             THEN [host |-> r.host, err |-> ErrCreateTunnel(i, r.err)]
             ELSE createLoop(r.host, i + 1, count, outs)

\* The scan of RemoveTunnel with the comparison reversed (id < highestID).
RECURSIVE highestOf_reversed(_, _)
highestOf_reversed(ids, acc) ==
    IF ids = {} THEN acc
    ELSE LET id == CHOOSE x \in ids : TRUE
         IN  highestOf_reversed(ids \ {id}, IF id < acc THEN id ELSE acc)

\* The highest key of tm.tunnels as RemoveTunnel computes it (highestID starts at 0).
RECURSIVE highestOf(_, _)
highestOf(ids, acc) ==
    IF ids = {} THEN acc
    ELSE LET id == CHOOSE x \in ids : TRUE
         IN  highestOf(ids \ {id}, IF id > acc THEN id ELSE acc)

----------------------------------------------------------------------------
Call(op, arg, err, before, calls) ==
    [op |-> op, arg |-> arg, err |-> err, before |-> before, calls |-> calls]
NoCall == Call("none", 0, Nil, <<>>, <<>>)
Brief(c) == [op |-> c.op, err |-> c.err, before |-> DOMAIN c.before]

\* Bookkeeping common to the three operations.
Record(op, arg, r, driverOk) ==
    /\ tunnels' = r.host.tunnels
    /\ files' = r.host.files
    /\ last' = Call(op, arg, r.err, tunnels, r.host.calls)
    /\ prev' = Brief(last)
    /\ IF scenario /\ op = "AddTunnel" /\ driverOk /\ Len(addRun) < RunLen
       THEN addRun' = Append(addRun, r.err) /\ scenario' = TRUE
       ELSE addRun' = <<>> /\ scenario' = FALSE
    /\ UNCHANGED config

\* The configuration NewTunnelManager(nil) installs.
DefaultTunnelConfig == [MinTunnels |-> 1, MaxTunnels |-> 8, ListenPort |-> ListenPort]

\* The configurations 1 <= min_tunnels <= max_tunnels a manager is built with.
TunnelConfigs ==
    {c \in [MinTunnels : 1..MaxCfgMin, MaxTunnels : 1..MaxCfgTunnels,
            ListenPort : {ListenPort}] : c.MinTunnels <= c.MaxTunnels}

\* NewTunnelManager(config), config drawn from configs
NewTunnelManager(configs) ==
    /\ config \in configs
    /\ tunnels = <<>>
    /\ files = {}
    /\ last = NoCall
    /\ prev = Brief(NoCall)
    /\ addRun = <<>>
    /\ scenario = TRUE

\* CreateTunnels(count)
CreateTunnelsResult(count, outs) ==
    LET h == Host(tunnels, files, <<>>)
    IN  IF count > config.MaxTunnels
        THEN [host |-> h, err |-> ErrExceedsMax(count, config.MaxTunnels)]
        ELSE createLoop(h, 0, count, outs)

CreateTunnels ==
    \E count \in -1..(MaxCfgTunnels + 1) :
      \E k \in 0..(IF count > 0 THEN count ELSE 0), f \in UpOutcomes \ {"ok"} :
        LET outs == [i \in 0..(count - 1) |-> IF i = k THEN f ELSE "ok"]
        IN  Record("CreateTunnels", count, CreateTunnelsResult(count, outs), FALSE)

\* AddTunnel with the bound test > instead of >=.
AddTunnelResult_gt(out) ==
    LET h == Host(tunnels, files, <<>>)
    IN  IF Cardinality(DOMAIN tunnels) > config.MaxTunnels
        THEN [host |-> h, err |-> ErrAtMax(config.MaxTunnels)]
        ELSE createTunnel(h, Cardinality(DOMAIN tunnels), out)

\* AddTunnel()
AddTunnelResult(out) ==
    LET h == Host(tunnels, files, <<>>)
    IN  IF Cardinality(DOMAIN tunnels) >= config.MaxTunnels
        THEN [host |-> h, err |-> ErrAtMax(config.MaxTunnels)]
        ELSE createTunnel(h, Cardinality(DOMAIN tunnels), out)

AddTunnel ==
    \E out \in UpOutcomes :
        Record("AddTunnel", 0, AddTunnelResult(out), out = "ok")

\* RemoveTunnel with the bound test < instead of <=.
RemoveTunnelResult_lt(out) ==
    LET h == Host(tunnels, files, <<>>)
    IN  IF Cardinality(DOMAIN tunnels) < config.MinTunnels
        THEN [host |-> h, err |-> ErrAtMin(config.MinTunnels)]
        ELSE destroyTunnel(h, highestOf(DOMAIN tunnels, 0), out)

\* RemoveTunnel that tears the tunnel down before it tests the bound.
RemoveTunnelResult_late(out) ==
    LET h == Host(tunnels, files, <<>>)
        r == destroyTunnel(h, highestOf(DOMAIN tunnels, 0), out)
    IN  IF Cardinality(DOMAIN tunnels) <= config.MinTunnels
        THEN [host |-> Host(tunnels, files, r.host.calls), err |-> ErrAtMin(config.MinTunnels)]
        ELSE r

\* RemoveTunnel()
RemoveTunnelResult(out) ==
    LET h == Host(tunnels, files, <<>>)
    IN  IF Cardinality(DOMAIN tunnels) <= config.MinTunnels
        THEN [host |-> h, err |-> ErrAtMin(config.MinTunnels)]
        ELSE destroyTunnel(h, highestOf(DOMAIN tunnels, 0), out)

RemoveTunnel ==
    \E out \in DownOutcomes :
        Record("RemoveTunnel", 0, RemoveTunnelResult(out), FALSE)

----------------------------------------------------------------------------
(***************************************************************************)
(* The scaling controller's decision (dynamic-scaling.go).                 *)
(***************************************************************************)
\* time.Time: the zero value, or a time in units of ScaleInterval.
ZeroTime == [isZero |-> TRUE, t |-> 0]
TimeAt(t) == [isZero |-> FALSE, t |-> t]
\* The largest time.Duration (2^63 - 1 ns, about 9223372 thousand seconds) in
\* units of 30 s, rounded down to thousands.
MaxDuration == (9223372 \div 30) * 1000
\* t.Sub(u): the difference from the zero time saturates at MaxDuration.
Sub(t, u) == IF u.isZero THEN MaxDuration ELSE t - u.t

\* float64 utilization: NaN, or a ratio in percent.
NaN == [nan |-> TRUE, pct |-> 0]
Pct(p) == [nan |-> FALSE, pct |-> p]
\* Go's > and < on float64: false when an operand is NaN.
FGt(u, threshold) == ~u.nan /\ u.pct > threshold
FLt(u, threshold) == ~u.nan /\ u.pct < threshold

ScalingAction(action, target, reason, t) ==
    [Action |-> action, TargetCount |-> target, Reason |-> reason, Timestamp |-> t]
NoDecision == ScalingAction("none", 0, "", 0)

\* The up-cooldown measured against the down-cooldown period.
scaleUpCooldown_down(m, t) == Sub(t, m.LastScaleAction) < ScaleDownCooldown

\* scaleUpCooldown / scaleDownCooldown of evaluateScaling
scaleUpCooldown(m, t) == Sub(t, m.LastScaleAction) < ScaleUpCooldown
scaleDownCooldown(m, t) == Sub(t, m.LastScaleAction) < ScaleDownCooldown

\* evaluateScaling with the utilization rule tried before the elephant-flow rule.
evaluateScaling_utilFirst(m, t) ==
    LET currentTunnels == Len(m.PerTunnelThroughput)
    IN  IF /\ FGt(m.UtilizationPct, ScaleUpThreshold)
           /\ currentTunnels < ScalerMaxTunnels
           /\ ~scaleUpCooldown(m, t)
        THEN ScalingAction("scale_up", currentTunnels + 1, "High utilization", t)
        ELSE IF /\ m.ElephantFlows > currentTunnels
                /\ currentTunnels < ScalerMaxTunnels
                /\ ~scaleUpCooldown(m, t)
        THEN ScalingAction("scale_up", Min2(m.ElephantFlows, ScalerMaxTunnels),
                           "Elephant flow scaling", t)
        ELSE IF /\ FLt(m.UtilizationPct, ScaleDownThreshold)
                /\ currentTunnels > ScalerMinTunnels
                /\ ~scaleDownCooldown(m, t)
        THEN ScalingAction("scale_down", currentTunnels - 1, "Low utilization", t)
        ELSE IF /\ Len(m.BurstHistory) >= 3
                /\ currentTunnels < ScalerMaxTunnels
                /\ ~scaleUpCooldown(m, t)
        THEN ScalingAction("scale_up", currentTunnels + 2, "Burst pattern detected", t)
        ELSE ScalingAction("no_action", 0, "No scaling needed", t)

\* evaluateScaling with the burst rule tried before the scale-down rule.
evaluateScaling_burstFirst(m, t) ==
    LET currentTunnels == Len(m.PerTunnelThroughput)
    IN  IF /\ m.ElephantFlows > currentTunnels
           /\ currentTunnels < ScalerMaxTunnels
           /\ ~scaleUpCooldown(m, t)
        THEN ScalingAction("scale_up", Min2(m.ElephantFlows, ScalerMaxTunnels),
                           "Elephant flow scaling", t)
        ELSE IF /\ FGt(m.UtilizationPct, ScaleUpThreshold)
                /\ currentTunnels < ScalerMaxTunnels
                /\ ~scaleUpCooldown(m, t)
        THEN ScalingAction("scale_up", currentTunnels + 1, "High utilization", t)
        ELSE IF /\ Len(m.BurstHistory) >= 3
                /\ currentTunnels < ScalerMaxTunnels
                /\ ~scaleUpCooldown(m, t)
        THEN ScalingAction("scale_up", currentTunnels + 2, "Burst pattern detected", t)
        ELSE IF /\ FLt(m.UtilizationPct, ScaleDownThreshold)
                /\ currentTunnels > ScalerMinTunnels
                /\ ~scaleDownCooldown(m, t)
        THEN ScalingAction("scale_down", currentTunnels - 1, "Low utilization", t)
        ELSE ScalingAction("no_action", 0, "No scaling needed", t)

\* evaluateScaling() on metrics m at time t
evaluateScaling(m, t) ==
    LET currentTunnels == Len(m.PerTunnelThroughput)
    IN  IF /\ m.ElephantFlows > currentTunnels
           /\ currentTunnels < ScalerMaxTunnels
           /\ ~scaleUpCooldown(m, t)
        THEN ScalingAction("scale_up", Min2(m.ElephantFlows, ScalerMaxTunnels),
                           "Elephant flow scaling", t)
        ELSE IF /\ FGt(m.UtilizationPct, ScaleUpThreshold)
                /\ currentTunnels < ScalerMaxTunnels
                /\ ~scaleUpCooldown(m, t)
        THEN ScalingAction("scale_up", currentTunnels + 1, "High utilization", t)
        ELSE IF /\ FLt(m.UtilizationPct, ScaleDownThreshold)
                /\ currentTunnels > ScalerMinTunnels
                /\ ~scaleDownCooldown(m, t)
        THEN ScalingAction("scale_down", currentTunnels - 1, "Low utilization", t)
        ELSE IF /\ Len(m.BurstHistory) >= 3
                /\ currentTunnels < ScalerMaxTunnels
                /\ ~scaleUpCooldown(m, t)
        THEN ScalingAction("scale_up", currentTunnels + 2, "Burst pattern detected", t)
        ELSE ScalingAction("no_action", 0, "No scaling needed", t)

\* NewTunnelScaler: metrics is the zero TunnelMetrics.
NewTunnelScaler ==
    /\ metrics = [PerTunnelThroughput |-> <<>>, UtilizationPct |-> Pct(0),
                  ElephantFlows |-> 0, LastScaleAction |-> ZeroTime, BurstHistory |-> <<>>]
    /\ now = 0
    /\ decision = NoDecision
    /\ seen = [metrics |-> metrics, now |-> now]

\* The utilizations a decision is evaluated on, around both thresholds.
UtilizationLevels ==
    {NaN, Pct(0), Pct(ScaleDownThreshold - 1), Pct(ScaleDownThreshold),
     Pct(ScaleUpThreshold), Pct(ScaleUpThreshold + 1), Pct(100)}

\* The inputs of one decision: any metrics the fields of TunnelMetrics can
\* hold and any time of evaluation, early ones and ones around the end of
\* the down-cooldown of an early scaling action.
ScalerInputs ==
    /\ now \in (0..MaxNow) \cup ((ScaleDownCooldown - 1)..(ScaleDownCooldown + 1))
    /\ \E n \in 0..(ScalerMaxTunnels + 1), u \in UtilizationLevels,
          e \in 0..MaxElephants, b \in 0..MaxBursts,
          l \in {ZeroTime} \cup {TimeAt(x) : x \in 0..MaxNow} :
          /\ ~l.isZero => l.t <= now
          /\ metrics = [PerTunnelThroughput |-> [i \in 1..n |-> 0],
                        UtilizationPct |-> u,
                        ElephantFlows |-> e,
                        LastScaleAction |-> l,
                        BurstHistory |-> [i \in 1..b |-> TimeAt(0)]]
    /\ decision = NoDecision
    /\ seen = [metrics |-> metrics, now |-> now]

\* One round of scalingLoop up to the decision: action := ts.evaluateScaling()
EvaluateScaling ==
    /\ decision = NoDecision
    /\ decision' = evaluateScaling(metrics, now)
    /\ seen' = [metrics |-> metrics, now |-> now]
    /\ UNCHANGED <<metrics, now>>

----------------------------------------------------------------------------
(***************************************************************************)
(* Instance tier selection (internal/tunnel/manager.go 376-432,            *)
(* dynamic-scaling.go 102-175).  Bandwidths in Mbps, monthly cost in       *)
(* cents, throughput in KiB/s (a throughput of k KiB/s is k * 1024         *)
(* bytes/s in the code).                                                   *)
(***************************************************************************)
Tier(type, baseline, burst, cost, maxTunnels) ==
    [Type |-> type, BaselineBandwidth |-> baseline, BurstBandwidth |-> burst,
     MonthlyCost |-> cost, MaxTunnels |-> maxTunnels]

\* instances of SelectOptimalInstance
Catalog ==
    << Tier("t4g.nano", 32, 5000, 131, 1),
       Tier("t4g.micro", 62, 5000, 263, 2),
       Tier("t4g.small", 125, 5000, 526, 4),
       Tier("c6gn.medium", 3125, 12500, 2700, 6),
       Tier("c6gn.large", 6250, 25000, 5400, 8) >>

\* instances of GetOptimalGravitonInstance
GravitonCatalog == Catalog \o << Tier("c6gn.xlarge", 12500, 25000, 10800, 12) >>

\* targetMbps := throughput * 8 / 1024 / 1024, on a throughput of kib * 1024 bytes/s
targetMbps(kib) == (kib * 8) \div 1024

\* The loop of both selection functions from tier i on: per tier the baseline
\* test, then the burst test; after the loop the first tier.
RECURSIVE selectLoop(_, _, _, _)
selectLoop(instances, i, target, budget) ==
    IF i > Len(instances)
    THEN instances[1]
    ELSE LET instance == instances[i]
         IN  IF instance.BaselineBandwidth >= target /\ instance.MonthlyCost <= budget
             THEN instance
             ELSE IF instance.BurstBandwidth >= target /\ instance.MonthlyCost <= budget
             THEN instance
             ELSE selectLoop(instances, i + 1, target, budget)

SelectOptimalInstanceResult(throughput, budget) ==
    selectLoop(Catalog, 1, targetMbps(throughput), budget)

GetOptimalGravitonInstanceResult(targetThroughput, budget) ==
    selectLoop(GravitonCatalog, 1, targetMbps(targetThroughput), budget)

\* No selection is under way.
NoSelection == sel = [throughput |-> 0, budget |-> 0, instance |-> "", graviton |-> ""]

\* Throughputs around every baseline and burst bandwidth of the catalog, the
\* 500 Mbps and the 500 MiB/s of the repository's test, and one that is
\* not a whole number of Mbps; in KiB/s.
ThroughputLevels ==
    {mbps * 128 : mbps \in {0, 32, 33, 62, 63, 125, 126, 500, 3125, 3126, 4000, 5000, 5001,
                            6250, 6251, 12500, 12501, 16000, 25000, 25001}}
        \cup {500 * 128 + 127}

\* Budgets around every tier's cost, in cents.
BudgetLevels == {0, 130, 131, 200, 263, 526, 2699, 2700, 3000, 5400, 10000, 10800, 20000}

SelectionInputs ==
    \E throughput \in ThroughputLevels, budget \in BudgetLevels :
        sel = [throughput |-> throughput, budget |-> budget, instance |-> "", graviton |-> ""]

\* a.SelectOptimalInstance(throughput, budget)
SelectOptimalInstance ==
    /\ sel.instance = ""
    /\ sel' = [sel EXCEPT !.instance = SelectOptimalInstanceResult(sel.throughput, sel.budget).Type]
    /\ UNCHANGED probe

\* GetOptimalGravitonInstance(targetThroughput, budget)
GetOptimalGravitonInstance ==
    /\ sel.graviton = ""
    /\ sel' = [sel EXCEPT !.graviton =
                    GetOptimalGravitonInstanceResult(sel.throughput, sel.budget).Type]
    /\ UNCHANGED probe

----------------------------------------------------------------------------
(***************************************************************************)
(* The bottleneck classifier of the network prober (prober.go 296-315).    *)
(* Speeds and bandwidths are int64 in one unit; / is Go's integer          *)
(* division, which panics on a zero divisor.                               *)
(***************************************************************************)
\* identifyBottlenecks with the comparisons in exact arithmetic.
identifyBottlenecks_exact(localSpeed, baseline, burst) ==
    IF 10 * baseline < localSpeed THEN "internet"
    ELSE IF 2 * baseline < localSpeed THEN "campus"
    ELSE IF baseline = 0 THEN "panic"
    ELSE IF burst < 2 * baseline THEN "aws"
    ELSE "local"

\* np.results.BottleneckLocation after identifyBottlenecks(), or "panic"
identifyBottlenecks(localSpeed, baseline, burst) ==
    IF baseline < localSpeed \div 10 THEN "internet"
    ELSE IF baseline < localSpeed \div 2 THEN "campus"
    ELSE IF baseline = 0 THEN "panic"
    ELSE IF burst \div baseline < 2 THEN "aws"
    ELSE "local"

\* A prober that has not measured anything.
NewNetworkProber ==
    probe = [Speed |-> 0, BaselineBandwidth |-> 0, BurstBandwidth |-> 0,
             BottleneckLocation |-> ""]

\* The results after discoverBandwidthCapacity: BurstBandwidth is the best
\* throughput of all stream counts, BaselineBandwidth the one of the
\* single-stream test (0 when that test failed).
ProbeInputs ==
    \E l \in 0..MaxLinkSpeed, b \in 0..MaxBaseline, p \in 0..MaxBurstBandwidth :
        /\ p >= b
        /\ probe = [Speed |-> l, BaselineBandwidth |-> b, BurstBandwidth |-> p,
                    BottleneckLocation |-> ""]

\* np.identifyBottlenecks()
IdentifyBottlenecks ==
    /\ probe.BottleneckLocation = ""
    /\ probe' = [probe EXCEPT !.BottleneckLocation =
                     identifyBottlenecks(probe.Speed, probe.BaselineBandwidth,
                                         probe.BurstBandwidth)]
    /\ UNCHANGED sel

----------------------------------------------------------------------------
(***************************************************************************)
(* The phased ClusterManager (phased-scaling-architecture.go).  ScaleUp    *)
(* holds cm.mu from its first statement to its return (Lock / defer        *)
(* Unlock), so it is one atomic action; the calls it makes into the tunnel *)
(* manager, the host and the provisioner are logged with the locks held    *)
(* while they run.  Thresholds and utilization are in percent.             *)
(***************************************************************************)
\* The PhaseConfig NewClusterManager(nil) builds.
DefaultPhaseConfig ==
    [MaxTunnelsPerInstance |-> 8, VerticalThreshold |-> 85, MaxInstances |-> 4,
     MaxAZs |-> 3, HorizontalThreshold |-> 90, EnableProcessPinning |-> TRUE,
     ReserveCores |-> 2]

\* The configurations a ClusterManager is built with: the default, a small
\* one without process pinning, and one whose thresholds leave no gap.
PhaseConfigs ==
    {DefaultPhaseConfig,
     [DefaultPhaseConfig EXCEPT !.MaxTunnelsPerInstance = 2, !.MaxInstances = 2,
                                !.EnableProcessPinning = FALSE],
     [DefaultPhaseConfig EXCEPT !.MaxTunnelsPerInstance = 1, !.MaxInstances = 3,
                                !.VerticalThreshold = 90, !.HorizontalThreshold = 85]}

\* float64 <=: false when the operand is NaN.
FLe(u, threshold) == ~u.nan /\ u.pct <= threshold

\* A call that leaves the ClusterManager, and the locks held while it runs.
External(call, held) == [call |-> call, held |-> held]

\* What a step of ScaleUp hands on: the manager, the error, the calls made.
Step(c, err, calls) == [cm |-> c, err |-> err, calls |-> calls]

\* calculateOptimalCore(instance, tunnelID) on a host with numCPUs cores
calculateOptimalCore(c, tunnelID) ==
    LET numCPUs == c.NumCPU
        reservedCores == c.scalingConfig.ReserveCores
        availableCores == numCPUs - reservedCores
    IN  IF availableCores <= 0
        THEN tunnelID % numCPUs
        ELSE reservedCores + (tunnelID % availableCores)

\* addTunnelWithPinning(instance, tunnelID), the instance being
\* cm.instances[id]; addOut and pinOut are the outcomes of
\* tunnelManager.AddTunnel and of pgrep / taskset.  A nil tunnelManager
\* makes AddTunnel panic on its receiver.
addTunnelWithPinning(c, calls, id, tunnelID, addOut, pinOut) ==
    LET added == Append(calls, External("AddTunnel", {"cm.mu"}))
        pinned == Append(added, External("pinWireGuardProcess", {"cm.mu"}))
        coreID == calculateOptimalCore(c, tunnelID)
        affinity == MapPut(c.instances[id].ProcessAffinity, tunnelID, coreID)
    IN  IF c.tunnelManager = "nil"
        THEN Step(c, "panic: nil pointer dereference", calls)
        ELSE IF addOut # "ok"
        THEN Step(c, "AddTunnel failed", added)
        ELSE IF ~c.scalingConfig.EnableProcessPinning
        THEN Step(c, "", added)
        ELSE Step([c EXCEPT !.instances[id].ProcessAffinity = affinity], "", pinned)

\* selectOptimalAZ(): every zone counted holds at least one instance, so
\* minCount ends positive and the zone is azOptions[len(cm.instances) % 3].
selectOptimalAZ(c) ==
    << "us-west-2a", "us-west-2b", "us-west-2c" >>[(Cardinality(DOMAIN c.instances) % 3) + 1]

\* createNewInstance(az): InstanceID is "i-<unix seconds>", here the second.
createNewInstance(c, az) ==
    [InstanceID |-> c.clock,
     PrivateIP |-> <<10, 0, Cardinality(DOMAIN c.instances) + 1, 10>>,
     PublicIP |-> <<54, Cardinality(DOMAIN c.instances) + 1, 100, 100>>,
     AvailabilityZone |-> az,
     TunnelCount |-> 0,
     ProcessAffinity |-> <<>>]

\* scaleHorizontal without the utilization test.
scaleHorizontal_anyUtil(c, calls, utilization, addOut, pinOut) ==
    IF Cardinality(DOMAIN c.instances) >= c.scalingConfig.MaxInstances
    THEN Step(c, "max instances reached", calls)
    ELSE LET newInstance == createNewInstance(c, selectOptimalAZ(c))
             created == Append(calls, External("createNewInstance", {"cm.mu"}))
             c1 == [c EXCEPT !.instances = MapPut(@, newInstance.InstanceID, newInstance)]
             r == addTunnelWithPinning(c1, created, newInstance.InstanceID, 0, addOut, pinOut)
         IN  IF r.err # ""
             THEN Step(r.cm, IF r.cm.tunnelManager = "nil" THEN r.err
                             ELSE "failed to add initial tunnel to new instance", r.calls)
             ELSE Step([r.cm EXCEPT !.instances[newInstance.InstanceID].TunnelCount = 1],
                       "", r.calls)

\* scaleHorizontal(utilization)
scaleHorizontal(c, calls, utilization, addOut, pinOut) ==
    IF Cardinality(DOMAIN c.instances) >= c.scalingConfig.MaxInstances
    THEN Step(c, "max instances reached", calls)
    ELSE IF FLe(utilization, c.scalingConfig.HorizontalThreshold)
    THEN Step(c, "utilization too low for horizontal scaling", calls)
    ELSE LET newInstance == createNewInstance(c, selectOptimalAZ(c))
             created == Append(calls, External("createNewInstance", {"cm.mu"}))
             c1 == [c EXCEPT !.instances = MapPut(@, newInstance.InstanceID, newInstance)]
             r == addTunnelWithPinning(c1, created, newInstance.InstanceID, 0, addOut, pinOut)
         IN  IF r.err # ""
             THEN Step(r.cm, IF r.cm.tunnelManager = "nil" THEN r.err
                             ELSE "failed to add initial tunnel to new instance", r.calls)
             ELSE Step([r.cm EXCEPT !.instances[newInstance.InstanceID].TunnelCount = 1],
                       "", r.calls)

\* scaleVertical(utilization); primary is the instance the range over
\* cm.instances yields first.
scaleVertical(c, calls, utilization, primary, addOut, pinOut) ==
    IF DOMAIN c.instances = {}
    THEN Step(c, "no instances available for vertical scaling", calls)
    ELSE LET primaryInstance == c.instances[primary]
         IN  IF primaryInstance.TunnelCount >= c.scalingConfig.MaxTunnelsPerInstance
             THEN IF FGt(utilization, c.scalingConfig.VerticalThreshold)
                  THEN scaleHorizontal([c EXCEPT !.currentPhase = "PhaseHorizontal"],
                                       calls, utilization, addOut, pinOut)
                  ELSE Step(c, "max tunnels reached on single instance", calls)
             ELSE LET r == addTunnelWithPinning(c, calls, primary,
                                                primaryInstance.TunnelCount, addOut, pinOut)
                  IN  IF r.err # ""
                      THEN Step(r.cm, IF r.cm.tunnelManager = "nil" THEN r.err
                                      ELSE "failed to add tunnel", r.calls)
                      ELSE Step([r.cm EXCEPT !.instances[primary].TunnelCount = @ + 1],
                                "", r.calls)

\* ScaleUp(totalUtilization)
ScaleUpResult(c, utilization, primary, addOut, pinOut) ==
    IF c.currentPhase = "PhaseVertical"
    THEN scaleVertical(c, <<>>, utilization, primary, addOut, pinOut)
    ELSE scaleHorizontal(c, <<>>, utilization, addOut, pinOut)

NoScaleUp ==
    [called |-> FALSE, utilization |-> Pct(0), err |-> "", calls |-> <<>>,
     phase |-> "PhaseVertical", instances |-> <<>>]

\* A ClusterManager in package main, on a host with numCPUs cores.
ClusterManager(phaseConfig, instances, tm, numCPUs) ==
    [currentPhase |-> "PhaseVertical", instances |-> instances, tunnelManager |-> tm,
     scalingConfig |-> phaseConfig, NumCPU |-> numCPUs, clock |-> 0]

\* NewClusterManager(nil): no instance, and tunnelManager is left nil.
NewClusterManager ==
    /\ cluster = ClusterManager(DefaultPhaseConfig, <<>>, "nil", 4)
    /\ scaleUp = NoScaleUp

\* The utilizations ScaleUp is called with, around both thresholds.
ClusterUtilizations == {NaN, Pct(0), Pct(85), Pct(86), Pct(90), Pct(91)}

\* The id of an instance that was not created by createNewInstance.
PrimaryID == 0 - 1

\* The managers ScaleUp is called on: the one NewClusterManager returns, and
\* managers assembled with a tunnel manager and one running instance.
ClusterInputs ==
    /\ \E phaseConfig \in PhaseConfigs, numCPUs \in {2, 4} :
          \/ cluster = ClusterManager(phaseConfig, <<>>, "nil", numCPUs)
          \/ \E n \in 0..phaseConfig.MaxTunnelsPerInstance, tm \in {"nil", "set"} :
                cluster = ClusterManager(phaseConfig,
                              [i \in {PrimaryID} |->
                                  [InstanceID |-> PrimaryID,
                                   PrivateIP |-> <<10, 0, 1, 10>>,
                                   PublicIP |-> <<54, 1, 100, 100>>,
                                   AvailabilityZone |-> "us-west-2a",
                                   TunnelCount |-> n,
                                   ProcessAffinity |-> <<>>]],
                              tm, numCPUs)
    /\ scaleUp = NoScaleUp

\* cm.ScaleUp(totalUtilization)
ScaleUp ==
    \E u \in ClusterUtilizations, addOut \in {"ok", "fail"}, pinOut \in {"ok", "fail"},
       primary \in (DOMAIN cluster.instances) \cup {PrimaryID} :
        LET r == ScaleUpResult(cluster, u, primary, addOut, pinOut)
        IN  /\ DOMAIN cluster.instances # {} => primary \in DOMAIN cluster.instances
            /\ cluster' = r.cm
            /\ scaleUp' = [called |-> TRUE, utilization |-> u, err |-> r.err,
                           calls |-> r.calls, phase |-> cluster.currentPhase,
                           instances |-> cluster.instances]

\* A second passes on the host.
ClusterTick ==
    /\ cluster.clock < MaxClock
    /\ cluster' = [cluster EXCEPT !.clock = @ + 1]
    /\ UNCHANGED scaleUp

----------------------------------------------------------------------------
(***************************************************************************)
(* MonitorPerformance (manager.go 158-180).  pc is the goroutine's         *)
(* position: "off" before the call, "ticker" waiting for ticker.C, "range" *)
(* inside the pass with tm.mu read-locked, "send" at                       *)
(* metrics <- tunnel.Metrics.  The lifecycle operations need tm.mu.Lock()  *)
(* and wait while the read lock is held.                                   *)
(***************************************************************************)
Monitor(pc, todo, ch, consumer, pending) ==
    [pc |-> pc, todo |-> todo, ch |-> ch, consumer |-> consumer, pending |-> pending]

\* MonitorPerformance has not been called.
NoMonitor == monitor = Monitor("off", {}, <<>>, "reading", "none")

\* tunnel.Metrics: no code writes it, it stays the zero TunnelMetrics.
ZeroTunnelMetrics == [Throughput |-> 0, PacketLoss |-> 0, Jitter |-> 0, LastUpdate |-> ZeroTime]

\* tm.mu is read-locked by the goroutine.
ReadLocked == monitor.pc \in {"range", "send"}

\* tm.MonitorPerformance(): makes the channel and starts the goroutine.
MonitorPerformance ==
    /\ monitor.pc = "off"
    /\ monitor' = [monitor EXCEPT !.pc = "ticker"]
    /\ UNCHANGED mgrVars

\* for range ticker.C { tm.mu.RLock(); a reader waits behind a waiting writer.
MonitorRLock ==
    /\ monitor.pc = "ticker"
    /\ monitor.pending = "none"
    /\ monitor' = [monitor EXCEPT !.pc = "range", !.todo = DOMAIN tunnels]
    /\ UNCHANGED mgrVars

\* for _, tunnel := range tm.tunnels: the next tunnel, in any order; an
\* active one is sent.
MonitorRange ==
    /\ monitor.pc = "range"
    /\ \E id \in monitor.todo :
          monitor' = [monitor EXCEPT !.todo = @ \ {id},
                                     !.pc = IF tunnels[id].State = "active"
                                            THEN "send" ELSE "range"]
    /\ UNCHANGED mgrVars

\* metrics <- tunnel.Metrics: proceeds only while the channel has room.
MonitorSend ==
    /\ monitor.pc = "send"
    /\ Len(monitor.ch) < MetricsChanCap
    /\ monitor' = [monitor EXCEPT !.ch = Append(@, ZeroTunnelMetrics), !.pc = "range"]
    /\ UNCHANGED mgrVars

\* tm.mu.RUnlock() after the pass.
MonitorRUnlock ==
    /\ monitor.pc = "range"
    /\ monitor.todo = {}
    /\ monitor' = [monitor EXCEPT !.pc = "ticker"]
    /\ UNCHANGED mgrVars

\* The consumer receives one sample.
Consume ==
    /\ monitor.pc # "off"
    /\ monitor.consumer = "reading"
    /\ monitor.ch # <<>>
    /\ monitor' = [monitor EXCEPT !.ch = Tail(@)]
    /\ UNCHANGED mgrVars

\* The consumer stops reading the channel.
ConsumerStops ==
    /\ monitor.pc # "off"
    /\ monitor.consumer = "reading"
    /\ monitor' = [monitor EXCEPT !.consumer = "stopped"]
    /\ UNCHANGED mgrVars

\* A caller enters AddTunnel or RemoveTunnel and waits at tm.mu.Lock().
LifecycleCall ==
    /\ monitor.pending = "none"
    /\ \E op \in {"AddTunnel", "RemoveTunnel"} : monitor' = [monitor EXCEPT !.pending = op]
    /\ UNCHANGED mgrVars

\* The waiting call gets tm.mu and runs to its return.
LockedAddTunnel ==
    /\ monitor.pending = "AddTunnel"
    /\ ~ReadLocked
    /\ AddTunnel
    /\ monitor' = [monitor EXCEPT !.pending = "none"]

LockedRemoveTunnel ==
    /\ monitor.pending = "RemoveTunnel"
    /\ ~ReadLocked
    /\ RemoveTunnel
    /\ monitor' = [monitor EXCEPT !.pending = "none"]

----------------------------------------------------------------------------
(***************************************************************************)
(* The controller loop of the TunnelScaler (dynamic-scaling.go 178-391).   *)
(***************************************************************************)
Controller(loop, collector, stopCh, tick, collects, queued, i, crashed, ups, downs, afterStop) ==
    [loop |-> loop, collector |-> collector, stopCh |-> stopCh, tick |-> tick,
     collects |-> collects, queued |-> queued, i |-> i, crashed |-> crashed,
     ups |-> ups, downs |-> downs, afterStop |-> afterStop]

\* A TunnelScaler before Start.
NoController ==
    ctl = Controller("off", "off", "open", FALSE, 0, 0, 0, FALSE, <<>>, <<>>, {})

\* parseThroughput is a placeholder in the source (it returns 0, "would be
\* calculated from the rate of change in tx/rx bytes"); the model lets it
\* return the rate the host measures, one of these for all tunnels of a pass.
ThroughputSamples == {0, 600, 1300}
parseThroughput(sample) == sample

\* detectBurstEvent(currentThroughput, tunnelCount); integer division,
\* which panics on tunnelCount = 0.
detectBurstEvent(currentThroughput, tunnelCount) ==
    (currentThroughput \div tunnelCount) > BurstThreshold

\* ts.metrics after collectMetrics() at time t on the tunnels GetActiveTunnels
\* returns (every tunnel of the map); with no tunnel the utilization is
\* 0/0 = NaN and detectBurstEvent panics after the fields are stored.
collectMetrics(m, tuns, sample, t) ==
    LET n == Cardinality(DOMAIN tuns)
        throughput == parseThroughput(sample)
        totalThroughput == n * throughput
        elephantFlows == IF throughput > ElephantFlowThreshold THEN n ELSE 0
        maxThroughput == n * TunnelCapacity
        utilization == IF n = 0 THEN NaN ELSE Pct((totalThroughput * 100) \div maxThroughput)
        m1 == [m EXCEPT !.PerTunnelThroughput = [i \in 1..n |-> throughput],
                        !.UtilizationPct = utilization,
                        !.ElephantFlows = elephantFlows]
        appended == Append(m.BurstHistory, TimeAt(t))
        filtered == SelectSeq(appended, LAMBDA b : b.t > t - BurstDetectionWindow)
    IN  IF n = 0 THEN [metrics |-> m1, panic |-> TRUE]
        ELSE IF detectBurstEvent(totalThroughput, n)
        THEN [metrics |-> [m1 EXCEPT !.BurstHistory = filtered], panic |-> FALSE]
        ELSE [metrics |-> m1, panic |-> FALSE]

\* executeScaling that leaves LastScaleAction alone.
stampLastScaleAction_keep(m, action) == m

\* executeScaling: ts.metrics.LastScaleAction = action.Timestamp
stampLastScaleAction(m, action) == [m EXCEPT !.LastScaleAction = TimeAt(action.Timestamp)]

\* What the controller did after Stop returned.
Later(op) == IF ctl.stopCh = "closed" THEN ctl.afterStop \cup {op} ELSE ctl.afterStop

\* ts.Start()
Start ==
    /\ ctl.loop = "off"
    /\ ctl' = [ctl EXCEPT !.loop = "select", !.collector = "select"]
    /\ UNCHANGED <<mgrVars, scalerVars>>

\* ts.Stop(): close(ts.stopCh), and return.
Stop ==
    /\ ctl.loop # "off"
    /\ ctl.stopCh = "open"
    /\ ~ctl.crashed
    /\ ctl' = [ctl EXCEPT !.stopCh = "closed"]
    /\ UNCHANGED <<mgrVars, scalerVars>>

\* One scale interval passes: the ticker of scalingLoop delivers a tick (its
\* channel holds one).
Tick ==
    /\ now < MaxTime
    /\ ~ctl.crashed
    /\ now' = now + 1
    /\ ctl' = [ctl EXCEPT !.tick = (ctl.loop # "off")]
    /\ UNCHANGED <<mgrVars, metrics, decision, seen>>

\* scalingLoop: case <-ts.stopCh: return
LoopReturn ==
    /\ ctl.loop = "select"
    /\ ctl.stopCh = "closed"
    /\ ~ctl.crashed
    /\ ctl' = [ctl EXCEPT !.loop = "done"]
    /\ UNCHANGED <<mgrVars, scalerVars>>

\* scalingLoop: case <-ticker.C: action := ts.evaluateScaling()
LoopEvaluate ==
    /\ ctl.loop = "select"
    /\ ctl.tick
    /\ ~ctl.crashed
    /\ decision' = evaluateScaling(metrics, now)
    /\ seen' = [metrics |-> metrics, now |-> now]
    /\ ctl' = [ctl EXCEPT !.tick = FALSE,
                          !.loop = IF decision'.Action = "no_action" THEN "select" ELSE "send",
                          !.afterStop = Later("evaluateScaling")]
    /\ UNCHANGED <<mgrVars, metrics, now>>

\* scalingLoop: ts.scalingDecision <- action; nothing receives from the
\* channel, so only the number of queued actions matters.
LoopSend ==
    /\ ctl.loop = "send"
    /\ ctl.queued < ScalingDecisionCap
    /\ ~ctl.crashed
    /\ ctl' = [ctl EXCEPT !.queued = @ + 1, !.loop = "stamp"]
    /\ UNCHANGED <<mgrVars, scalerVars>>

\* executeScaling: Lock; LastScaleAction = action.Timestamp; Unlock
ExecuteStamp ==
    /\ ctl.loop = "stamp"
    /\ ~ctl.crashed
    /\ metrics' = stampLastScaleAction(metrics, decision)
    /\ ctl' = [ctl EXCEPT !.loop = "read",
                          !.ups = IF decision.Action = "scale_up"
                                  THEN Append(@, decision.Timestamp) ELSE @,
                          !.downs = IF decision.Action = "scale_down"
                                    THEN Append(@, decision.Timestamp) ELSE @]
    /\ UNCHANGED <<mgrVars, now, decision, seen>>

\* executeScaling: currentTunnels := len(ts.metrics.PerTunnelThroughput),
\* read without the lock
ExecuteRead ==
    /\ ctl.loop = "read"
    /\ ~ctl.crashed
    /\ ctl' = [ctl EXCEPT !.i = Len(metrics.PerTunnelThroughput), !.loop = "scale"]
    /\ UNCHANGED <<mgrVars, scalerVars>>

\* executeScaling, case "scale_up": one round of the loop
ExecuteAdd ==
    /\ ctl.loop = "scale"
    /\ decision.Action = "scale_up"
    /\ ctl.i < decision.TargetCount
    /\ ~ctl.crashed
    /\ AddTunnel
    /\ ctl' = [ctl EXCEPT !.i = IF last'.err = Nil THEN @ + 1 ELSE @,
                          !.loop = IF last'.err = Nil THEN "scale" ELSE "select",
                          !.afterStop = Later("AddTunnel")]
    /\ UNCHANGED scalerVars

\* executeScaling, case "scale_down": one round of the loop
ExecuteRemove ==
    /\ ctl.loop = "scale"
    /\ decision.Action = "scale_down"
    /\ ctl.i > decision.TargetCount
    /\ ~ctl.crashed
    /\ RemoveTunnel
    /\ ctl' = [ctl EXCEPT !.i = IF last'.err = Nil THEN @ - 1 ELSE @,
                          !.loop = IF last'.err = Nil THEN "scale" ELSE "select",
                          !.afterStop = Later("RemoveTunnel")]
    /\ UNCHANGED scalerVars

\* executeScaling: the loop condition fails, return to the select
ExecuteReturn ==
    /\ ctl.loop = "scale"
    /\ ~ctl.crashed
    /\ \/ decision.Action = "scale_up" /\ ctl.i >= decision.TargetCount
       \/ decision.Action = "scale_down" /\ ctl.i <= decision.TargetCount
    /\ ctl' = [ctl EXCEPT !.loop = "select"]
    /\ UNCHANGED <<mgrVars, scalerVars>>

\* metricsCollection: case <-ts.stopCh: return
CollectorReturn ==
    /\ ctl.collector = "select"
    /\ ctl.stopCh = "closed"
    /\ ~ctl.crashed
    /\ ctl' = [ctl EXCEPT !.collector = "done"]
    /\ UNCHANGED <<mgrVars, scalerVars>>

\* metricsCollection: case <-ticker.C: ts.collectMetrics(); a panic in it
\* ends the process.
CollectMetrics ==
    /\ ctl.collector = "select"
    /\ ctl.collects < MaxCollects
    /\ ~ctl.crashed
    /\ \E sample \in ThroughputSamples :
          LET r == collectMetrics(metrics, tunnels, sample, now)
          IN  /\ metrics' = r.metrics
              /\ ctl' = [ctl EXCEPT !.collects = @ + 1, !.crashed = r.panic]
    /\ UNCHANGED <<mgrVars, now, decision, seen>>

\* The manager after a CreateTunnels(count) that succeeded on a new manager.
ManagerAfterCreate(count) ==
    LET r == createLoop(Host(<<>>, {}, <<>>), 0, count, [i \in 0..(count - 1) |-> "ok"])
    IN  /\ config = DefaultTunnelConfig
        /\ tunnels = r.host.tunnels
        /\ files = r.host.files
        /\ last = Call("CreateTunnels", count, r.err, <<>>, r.host.calls)
        /\ prev = Brief(NoCall)
        /\ addRun = <<>>
        /\ scenario = FALSE

Init ==
    NewTunnelManager(TunnelConfigs) /\ NewTunnelScaler /\ NoSelection /\ NewNetworkProber
        /\ NewClusterManager /\ NoMonitor /\ NoController

Next ==
    \/ CreateTunnels /\ UNCHANGED <<scalerVars, pureVars, clusterVars, monitor, ctl>>
    \/ AddTunnel /\ UNCHANGED <<scalerVars, pureVars, clusterVars, monitor, ctl>>
    \/ RemoveTunnel /\ UNCHANGED <<scalerVars, pureVars, clusterVars, monitor, ctl>>

Spec == Init /\ [][Next]_vars

\* Runs that use AddTunnel and RemoveTunnel only.
NextAddRemove ==
    \/ AddTunnel /\ UNCHANGED <<scalerVars, pureVars, clusterVars, monitor, ctl>>
    \/ RemoveTunnel /\ UNCHANGED <<scalerVars, pureVars, clusterVars, monitor, ctl>>

SpecAddRemove == Init /\ [][NextAddRemove]_vars

\* The decision function on every input.
ScalerInit ==
    NewTunnelManager({DefaultTunnelConfig}) /\ ScalerInputs /\ NoSelection /\ NewNetworkProber
        /\ NewClusterManager /\ NoMonitor /\ NoController

ScalerNext == EvaluateScaling /\ UNCHANGED <<mgrVars, pureVars, clusterVars, monitor, ctl>>

ScalerSpec == ScalerInit /\ [][ScalerNext]_vars

\* The tier selection functions on every input.
SelectorInit ==
    NewTunnelManager({DefaultTunnelConfig}) /\ NewTunnelScaler /\ SelectionInputs
        /\ NewNetworkProber /\ NewClusterManager /\ NoMonitor /\ NoController

SelectorNext ==
    \/ SelectOptimalInstance /\ UNCHANGED <<mgrVars, scalerVars, clusterVars, monitor, ctl>>
    \/ GetOptimalGravitonInstance /\ UNCHANGED <<mgrVars, scalerVars, clusterVars, monitor, ctl>>

SelectorSpec == SelectorInit /\ [][SelectorNext]_vars

\* The bottleneck classifier on every input.
ProberInit ==
    NewTunnelManager({DefaultTunnelConfig}) /\ NewTunnelScaler /\ NoSelection /\ ProbeInputs
        /\ NewClusterManager /\ NoMonitor /\ NoController

ProberNext == IdentifyBottlenecks /\ UNCHANGED <<mgrVars, scalerVars, clusterVars, monitor, ctl>>

ProberSpec == ProberInit /\ [][ProberNext]_vars

\* ScaleUp calls on a ClusterManager.
ClusterInit ==
    NewTunnelManager({DefaultTunnelConfig}) /\ NewTunnelScaler /\ NoSelection
        /\ NewNetworkProber /\ ClusterInputs /\ NoMonitor /\ NoController

ClusterNext ==
    \/ ScaleUp /\ UNCHANGED <<mgrVars, scalerVars, pureVars, monitor, ctl>>
    \/ ClusterTick /\ UNCHANGED <<mgrVars, scalerVars, pureVars, monitor, ctl>>

ClusterSpec == ClusterInit /\ [][ClusterNext]_vars

\* A manager with its performance monitor running.
MonitorInit ==
    NewTunnelManager({[MinTunnels |-> 1, MaxTunnels |-> 2, ListenPort |-> ListenPort]})
        /\ NewTunnelScaler /\ NoSelection /\ NewNetworkProber /\ NewClusterManager
        /\ NoMonitor /\ NoController

MonitorNext ==
    \/ MonitorPerformance /\ UNCHANGED <<scalerVars, pureVars, clusterVars, ctl>>
    \/ MonitorRLock /\ UNCHANGED <<scalerVars, pureVars, clusterVars, ctl>>
    \/ MonitorRange /\ UNCHANGED <<scalerVars, pureVars, clusterVars, ctl>>
    \/ MonitorSend /\ UNCHANGED <<scalerVars, pureVars, clusterVars, ctl>>
    \/ MonitorRUnlock /\ UNCHANGED <<scalerVars, pureVars, clusterVars, ctl>>
    \/ Consume /\ UNCHANGED <<scalerVars, pureVars, clusterVars, ctl>>
    \/ ConsumerStops /\ UNCHANGED <<scalerVars, pureVars, clusterVars, ctl>>
    \/ LifecycleCall /\ UNCHANGED <<scalerVars, pureVars, clusterVars, ctl>>
    \/ LockedAddTunnel /\ UNCHANGED <<scalerVars, pureVars, clusterVars, ctl>>
    \/ LockedRemoveTunnel /\ UNCHANGED <<scalerVars, pureVars, clusterVars, ctl>>

MonitorSpec == MonitorInit /\ [][MonitorNext]_vars

\* A TunnelScaler on a manager that holds some tunnels.
ControllerInit ==
    /\ \E count \in 0..MaxStartTunnels : ManagerAfterCreate(count)
    /\ NewTunnelScaler /\ NoSelection /\ NewNetworkProber /\ NewClusterManager
    /\ NoMonitor /\ NoController

ControllerNext ==
    \/ Start /\ UNCHANGED <<pureVars, clusterVars, monitor>>
    \/ Stop /\ UNCHANGED <<pureVars, clusterVars, monitor>>
    \/ Tick /\ UNCHANGED <<pureVars, clusterVars, monitor>>
    \/ LoopReturn /\ UNCHANGED <<pureVars, clusterVars, monitor>>
    \/ LoopEvaluate /\ UNCHANGED <<pureVars, clusterVars, monitor>>
    \/ LoopSend /\ UNCHANGED <<pureVars, clusterVars, monitor>>
    \/ ExecuteStamp /\ UNCHANGED <<pureVars, clusterVars, monitor>>
    \/ ExecuteRead /\ UNCHANGED <<pureVars, clusterVars, monitor>>
    \/ ExecuteAdd /\ UNCHANGED <<pureVars, clusterVars, monitor>>
    \/ ExecuteRemove /\ UNCHANGED <<pureVars, clusterVars, monitor>>
    \/ ExecuteReturn /\ UNCHANGED <<pureVars, clusterVars, monitor>>
    \/ CollectorReturn /\ UNCHANGED <<pureVars, clusterVars, monitor>>
    \/ CollectMetrics /\ UNCHANGED <<pureVars, clusterVars, monitor>>

ControllerSpec == ControllerInit /\ [][ControllerNext]_vars

\* A TunnelScaler that has been running for a while: one collectMetrics pass
\* measured 1300 MiB/s per tunnel, the loop then decided "High utilization"
\* k times, one scale_up_cooldown apart, and sent each decision on
\* scalingDecision; every AddTunnel of these actions failed at the host (key
\* generation), so the manager still holds its first tunnels.  The pass after
\* the last action measured 600 MiB/s and the loop has been quiet for
\* scale_down_cooldown since.  Time 0 is the present; the past is negative.
QueueInit ==
    /\ \E k \in (ScalingDecisionCap - MaxFreeSlots)..ScalingDecisionCap :
       LET count == MaxStartTunnels
           r == createLoop(Host(<<>>, {}, <<>>), 0, count, [i \in 0..(count - 1) |-> "ok"])
           tLast == 0 - ScaleDownCooldown
           tFirst == tLast - (k - 1) * ScaleUpCooldown
           fresh == [PerTunnelThroughput |-> <<>>, UtilizationPct |-> Pct(0),
                     ElephantFlows |-> 0, LastScaleAction |-> ZeroTime,
                     BurstHistory |-> <<>>]
           m1 == collectMetrics(fresh, r.host.tunnels, 1300, tFirst).metrics
           prior == IF k = 1 THEN m1
                    ELSE [m1 EXCEPT !.LastScaleAction = TimeAt(tLast - ScaleUpCooldown)]
           action == evaluateScaling(prior, tLast)
           m2 == stampLastScaleAction(prior, action)
       IN  /\ config = DefaultTunnelConfig
           /\ tunnels = r.host.tunnels
           /\ files = r.host.files
           /\ last = Call("AddTunnel", 0, ErrKeys, r.host.tunnels, <<>>)
           /\ prev = Brief(Call("CreateTunnels", count, Nil, <<>>, r.host.calls))
           /\ addRun = <<>>
           /\ scenario = FALSE
           /\ metrics = collectMetrics(m2, r.host.tunnels, 600, tLast).metrics
           /\ now = 0
           /\ decision = action
           /\ seen = [metrics |-> prior, now |-> tLast]
           /\ ctl = Controller("select", "select", "open", FALSE, 0, k, count, FALSE,
                               [j \in 1..k |-> tLast - (k - j) * ScaleUpCooldown],
                               <<>>, {})
    /\ NoSelection /\ NewNetworkProber /\ NewClusterManager /\ NoMonitor

QueueNext ==
    \/ Stop /\ UNCHANGED <<pureVars, clusterVars, monitor>>
    \/ Tick /\ UNCHANGED <<pureVars, clusterVars, monitor>>
    \/ LoopReturn /\ UNCHANGED <<pureVars, clusterVars, monitor>>
    \/ LoopEvaluate /\ UNCHANGED <<pureVars, clusterVars, monitor>>
    \/ LoopSend /\ UNCHANGED <<pureVars, clusterVars, monitor>>
    \/ ExecuteStamp /\ UNCHANGED <<pureVars, clusterVars, monitor>>
    \/ ExecuteRead /\ UNCHANGED <<pureVars, clusterVars, monitor>>
    \/ ExecuteAdd /\ UNCHANGED <<pureVars, clusterVars, monitor>>
    \/ ExecuteRemove /\ UNCHANGED <<pureVars, clusterVars, monitor>>
    \/ ExecuteReturn /\ UNCHANGED <<pureVars, clusterVars, monitor>>
    \/ CollectorReturn /\ UNCHANGED <<pureVars, clusterVars, monitor>>
    \/ CollectMetrics /\ UNCHANGED <<pureVars, clusterVars, monitor>>

QueueSpec == QueueInit /\ [][QueueNext]_vars

----------------------------------------------------------------------------
N == Cardinality(DOMAIN tunnels)
AllActive == \A i \in DOMAIN tunnels : tunnels[i].State = "active"

C2_Contiguous ==
    /\ DOMAIN tunnels = 0..(N - 1)
    /\ \A i \in DOMAIN tunnels : tunnels[i].ID = i

\* A RemoveTunnel succeeded and left at least two tunnels.
C2_Witness ==
    /\ last.op = "RemoveTunnel"
    /\ last.err = Nil
    /\ N >= 2

\* C3: AddTunnel on a manager holding max_tunnels tunnels returns
\* "maximum tunnel count reached (<max>)", calls no driver and changes
\* nothing; with max_tunnels = 3 and a working driver four AddTunnel calls
\* on a new manager return nil, nil, nil, error.
C3_AtMax ==
    /\ (last.op = "AddTunnel" /\ Cardinality(DOMAIN last.before) >= config.MaxTunnels)
          => /\ last.err = ErrAtMax(config.MaxTunnels)
             /\ last.calls = <<>>
             /\ tunnels = last.before
    /\ (scenario /\ config.MaxTunnels = 3 /\ Len(addRun) = 4)
          => addRun = <<Nil, Nil, Nil, ErrAtMax(3)>>

\* The fourth AddTunnel of the run on a manager with max_tunnels = 3 has returned.
C3_Witness ==
    /\ scenario
    /\ config.MaxTunnels = 3
    /\ Len(addRun) = 4
    /\ last.op = "AddTunnel"
    /\ N = 3

C5_Original ==
    (last.op = "CreateTunnels" /\ last.err = Nil /\ last.arg >= 1)
        => /\ N = last.arg
           /\ DOMAIN tunnels = 0..(last.arg - 1)
           /\ AllActive

\* C6 as stated: when CreateTunnels(n) fails at tunnel k, 0 < k < n, none of
\* the tunnels 0..k-1 it brought up is left in the manager.
C6_Original ==
    (/\ last.op = "CreateTunnels"
     /\ last.err.kind \in {ErrCreateTunnel(0, ErrKeys).kind,
                            ErrCreateTunnel(0, ErrWriteConfig).kind,
                            ErrCreateTunnel(0, ErrBringUp).kind}
     /\ 0 < last.err.a
     /\ last.err.a < last.arg)
        => \A i \in 0..(last.err.a - 1) : i \notin DOMAIN tunnels

\* C7 as stated: CreateTunnels(n) with n < 1 or n > max_tunnels returns the
\* out-of-range error and creates no tunnel.
C7_Original ==
    (last.op = "CreateTunnels" /\ (last.arg < 1 \/ last.arg > config.MaxTunnels))
        => /\ last.err = ErrExceedsMax(last.arg, config.MaxTunnels)
           /\ tunnels = last.before

Network24(ip) == <<ip.octets[1], ip.octets[2], ip.octets[3]>>

\* C9: tunnel i has address 10.100.(i+1).1/24 and port ListenPort + i; two
\* distinct tunnels have different /24 networks and different ports.
C9_Addressing ==
    /\ \A i \in DOMAIN tunnels :
          /\ tunnels[i].EndpointIP = [octets |-> <<10, 100, i + 1, 1>>, prefix |-> 24]
          /\ tunnels[i].Port = config.ListenPort + i
    /\ \A i, j \in DOMAIN tunnels :
          i # j => /\ Network24(tunnels[i].EndpointIP) # Network24(tunnels[j].EndpointIP)
                   /\ tunnels[i].Port # tunnels[j].Port

\* The manager holds the largest number of tunnels explored.
C9_Witness ==
    /\ N = MaxCfgTunnels
    /\ last.op \in {"AddTunnel", "CreateTunnels"}
    /\ last.err = Nil


\* C10: a decision evaluated with utilization above scale_up_threshold, fewer
\* than max_tunnels tunnels, no up-cooldown and no more elephant flows than
\* tunnels is scale_up with target N + 1.
C10_ScaleUpByOne ==
    LET m == seen.metrics
        n == Len(m.PerTunnelThroughput)
    IN  (/\ decision # NoDecision
         /\ FGt(m.UtilizationPct, ScaleUpThreshold)
         /\ n < ScalerMaxTunnels
         /\ Sub(seen.now, m.LastScaleAction) >= ScaleUpCooldown
         /\ m.ElephantFlows <= n)
            => /\ decision.Action = "scale_up"
               /\ decision.TargetCount = n + 1

\* Such a decision was taken four intervals after the last scaling action,
\* with burst events on record.
C10_Witness ==
    /\ decision.Action = "scale_up"
    /\ decision.Reason = "High utilization"
    /\ ~seen.metrics.LastScaleAction.isZero
    /\ seen.now - seen.metrics.LastScaleAction.t >= ScaleUpCooldown
    /\ Len(seen.metrics.BurstHistory) >= 3
    /\ seen.metrics.ElephantFlows <= Len(seen.metrics.PerTunnelThroughput)

\* C11: when the elephant-flow count k exceeds the tunnel count N, N is below
\* max_tunnels and the up-cooldown has passed, the decision is scale_up with
\* target min(k, max_tunnels), for every utilization.
C11_ElephantFirst ==
    LET m == seen.metrics
        n == Len(m.PerTunnelThroughput)
        k == m.ElephantFlows
    IN  (/\ decision # NoDecision
         /\ k > n
         /\ n < ScalerMaxTunnels
         /\ Sub(seen.now, m.LastScaleAction) >= ScaleUpCooldown)
            => /\ decision.Action = "scale_up"
               /\ decision.TargetCount = (IF k <= ScalerMaxTunnels THEN k ELSE ScalerMaxTunnels)
               /\ decision.Reason = "Elephant flow scaling"

\* The elephant-flow rule decided at a utilization above the scale-up
\* threshold, with the flow count capped at max_tunnels.
C11_Witness ==
    /\ decision.Action = "scale_up"
    /\ decision.Reason = "Elephant flow scaling"
    /\ FGt(seen.metrics.UtilizationPct, ScaleUpThreshold)
    /\ seen.metrics.ElephantFlows > ScalerMaxTunnels
    /\ decision.TargetCount = ScalerMaxTunnels
    /\ Len(seen.metrics.PerTunnelThroughput) + 1 < ScalerMaxTunnels

\* C12: when U < scale_down_threshold, N > min_tunnels, the down-cooldown has
\* passed and neither the elephant-flow rule nor the high-utilization rule
\* matches, the decision is scale_down with target N - 1, whatever the number
\* of recorded burst events; with N = max_tunnels and U > scale_up_threshold
\* the decision is no_action.
C12_ScaleDown ==
    LET m == seen.metrics
        n == Len(m.PerTunnelThroughput)
        upOpen == n < ScalerMaxTunnels /\ Sub(seen.now, m.LastScaleAction) >= ScaleUpCooldown
        elephantRule == m.ElephantFlows > n /\ upOpen
        highRule == FGt(m.UtilizationPct, ScaleUpThreshold) /\ upOpen
    IN  decision # NoDecision =>
          /\ (/\ FLt(m.UtilizationPct, ScaleDownThreshold)
              /\ n > ScalerMinTunnels
              /\ Sub(seen.now, m.LastScaleAction) >= ScaleDownCooldown
              /\ ~elephantRule
              /\ ~highRule)
                 => /\ decision.Action = "scale_down"
                    /\ decision.TargetCount = n - 1
          /\ (n = ScalerMaxTunnels /\ FGt(m.UtilizationPct, ScaleUpThreshold))
                 => decision.Action = "no_action"

\* A scale-down was decided with three burst events on record, below
\* max_tunnels, exactly scale_down_cooldown after the last scaling action.
C12_Witness ==
    /\ decision.Action = "scale_down"
    /\ Len(seen.metrics.BurstHistory) >= 3
    /\ Len(seen.metrics.PerTunnelThroughput) < ScalerMaxTunnels
    /\ ~seen.metrics.LastScaleAction.isZero
    /\ seen.now - seen.metrics.LastScaleAction.t = ScaleDownCooldown

\* C17 as stated: the selection returns the first tier whose baseline covers
\* the target within budget; only if there is none, the first tier whose
\* burst covers the target within budget; only if there is none, the
\* cheapest tier; 500 Mbps with a budget of $30 selects c6gn.medium.
C17_Original ==
    LET target == targetMbps(sel.throughput)
        TwoPass(instances) ==
            LET byBaseline == {i \in 1..Len(instances) :
                                  /\ instances[i].BaselineBandwidth >= target
                                  /\ instances[i].MonthlyCost <= sel.budget}
                byBurst == {i \in 1..Len(instances) :
                               /\ instances[i].BurstBandwidth >= target
                               /\ instances[i].MonthlyCost <= sel.budget}
                First(S) == CHOOSE i \in S : \A j \in S : i <= j
            IN  IF byBaseline # {} THEN instances[First(byBaseline)].Type
                ELSE IF byBurst # {} THEN instances[First(byBurst)].Type
                ELSE instances[1].Type
    IN  /\ sel.instance # "" => sel.instance = TwoPass(Catalog)
        /\ sel.graviton # "" => sel.graviton = TwoPass(GravitonCatalog)
        /\ (sel.instance # "" /\ target = 500 /\ sel.budget = 3000)
              => sel.instance = "c6gn.medium"

\* C18 as stated, in exact arithmetic: for B > 0 the classifier returns
\* internet iff B < L/10, campus iff L/10 <= B < L/2, cloud ("aws") iff
\* B >= L/2 and P/B < 2, and local otherwise.
C18_Original ==
    LET L == probe.Speed
        B == probe.BaselineBandwidth
        P == probe.BurstBandwidth
        r == probe.BottleneckLocation
    IN  (r # "" /\ B > 0) =>
          /\ r = "internet" <=> 10 * B < L
          /\ r = "campus" <=> (L <= 10 * B /\ 2 * B < L)
          /\ r = "aws" <=> (2 * B >= L /\ P < 2 * B)
          /\ r = "local" <=> (2 * B >= L /\ P >= 2 * B)

\* C18 amended: with L/10 and L/2 rounded down to whole units, for B > 0 the
\* classifier returns internet iff B < floor(L/10), campus iff
\* floor(L/10) <= B < floor(L/2), cloud ("aws") iff B >= floor(L/2) and
\* P < 2B, and local otherwise.
C18_Classifier ==
    LET L == probe.Speed
        B == probe.BaselineBandwidth
        P == probe.BurstBandwidth
        r == probe.BottleneckLocation
        tenth == CHOOSE q \in 0..L : 10 * q <= L /\ L < 10 * (q + 1)
        half == CHOOSE q \in 0..L : 2 * q <= L /\ L < 2 * (q + 1)
    IN  (r # "" /\ B > 0) =>
          /\ r = "internet" <=> B < tenth
          /\ r = "campus" <=> (tenth <= B /\ B < half)
          /\ r = "aws" <=> (B >= half /\ P < 2 * B)
          /\ r = "local" <=> (B >= half /\ P >= 2 * B)
          /\ r \in {"internet", "campus", "aws", "local"}

\* The classifier ran on a link speed that is not a multiple of 10, with the
\* baseline between the rounded and the exact tenth of it.
C18_Witness ==
    /\ probe.BottleneckLocation = "campus"
    /\ probe.BaselineBandwidth > 0
    /\ probe.BaselineBandwidth = probe.Speed \div 10
    /\ 10 * probe.BaselineBandwidth < probe.Speed

C20_Original ==
    \A i \in 1..Len(scaleUp.calls) : scaleUp.calls[i].held = {}

\* C19 as stated: the collector does not wait on a consumer that has stopped
\* reading, so it is never stuck in a send on the full channel with
\* tm.mu read-locked while an AddTunnel or RemoveTunnel call waits for tm.mu.
C19_Original ==
    ~(/\ monitor.consumer = "stopped"
      /\ monitor.pc = "send"
      /\ Len(monitor.ch) = MetricsChanCap
      /\ ReadLocked
      /\ monitor.pending # "none")

\* C13: any two scale-up actions the controller loop executes are at least
\* scale_up_cooldown apart.
C13_UpCooldown ==
    \A a, b \in 1..Len(ctl.ups) :
        a < b => ctl.ups[b] - ctl.ups[a] >= ScaleUpCooldown

\* Two scale-up actions were executed exactly scale_up_cooldown apart, and
\* the second one added a tunnel.
C13_Witness ==
    /\ Len(ctl.ups) = 2
    /\ ctl.ups[2] - ctl.ups[1] = ScaleUpCooldown
    /\ last.op = "AddTunnel"
    /\ last.err = Nil
    /\ metrics.LastScaleAction = TimeAt(ctl.ups[2])

\* C14 as stated: the cooldowns are per direction.  A decision taken when
\* the scale-down rule matches (U below the threshold, N above min_tunnels,
\* no elephant flows beyond N) and the last executed scale-down, if any, is
\* at least scale_down_cooldown old is scale_down, however recent the last
\* scale-up is; and a decision taken when the high-utilization rule matches
\* and the last executed scale-up, if any, is at least scale_up_cooldown old
\* is scale_up, however recent the last scale-down is.
C14_Original ==
    LET m == seen.metrics
        n == Len(m.PerTunnelThroughput)
        upOld == \A a \in 1..Len(ctl.ups) : seen.now - ctl.ups[a] >= ScaleUpCooldown
        downOld == \A a \in 1..Len(ctl.downs) : seen.now - ctl.downs[a] >= ScaleDownCooldown
    IN  decision # NoDecision =>
          /\ (/\ FLt(m.UtilizationPct, ScaleDownThreshold)
              /\ n > ScalerMinTunnels
              /\ m.ElephantFlows <= n
              /\ downOld)
                 => decision.Action = "scale_down"
          /\ (/\ FGt(m.UtilizationPct, ScaleUpThreshold)
              /\ n < ScalerMaxTunnels
              /\ upOld)
                 => decision.Action = "scale_up"

\* C16 as stated: after Stop has returned the controller evaluates no
\* scaling decision and calls neither AddTunnel nor RemoveTunnel.
C16_Original == ctl.afterStop = {}

\* C21 as stated: a ScaleUp call that starts in the Vertical phase and
\* returns an error without an instance having been added leaves the phase
\* Vertical.
C21_Original ==
    (/\ scaleUp.called
     /\ scaleUp.phase = "PhaseVertical"
     /\ scaleUp.err # ""
     /\ DOMAIN cluster.instances = DOMAIN scaleUp.instances)
        => cluster.currentPhase = "PhaseVertical"

\* The id of the tunnel whose bring-up failed in the last call, or -1.
FailedBringUp ==
    IF last.op = "AddTunnel" /\ last.err = ErrBringUp
    THEN Cardinality(DOMAIN last.before)
    ELSE IF last.op = "CreateTunnels" /\ last.err.kind = ErrCreateTunnel(0, ErrBringUp).kind
    THEN last.err.a
    ELSE 0 - 1

\* C22 as stated: after an AddTunnel / CreateTunnels whose bring-up failed,
\* the failed tunnel's configuration file is gone, the error was returned,
\* and the failed tunnel is not reported as active.
C22_Original ==
    FailedBringUp >= 0
        => /\ ConfigFile(InterfaceName(FailedBringUp)) \notin files
           /\ last.err # Nil
           /\ (FailedBringUp \in DOMAIN tunnels
                  => tunnels[FailedBringUp].State # "active")

\* C23 as stated: when the first AddTunnel / RemoveTunnel of the executed
\* action failed (it is the first lifecycle call since the tunnels were
\* created, so the tunnel count did not change), the action's timestamp has
\* not become the start of a cooldown.
C23_Original ==
    (/\ ctl.loop = "select"
     /\ decision.Action \in {"scale_up", "scale_down"}
     /\ last.op \in {"AddTunnel", "RemoveTunnel"}
     /\ last.err # Nil
     /\ prev.op = "CreateTunnels"
     /\ DOMAIN tunnels = DOMAIN last.before)
        => metrics.LastScaleAction # TimeAt(decision.Timestamp)

\* C26 as stated: no metrics-collection cycle ends in a runtime failure,
\* whatever number of tunnels the manager reports, zero included.
C26_Original == ~ctl.crashed

\* C29 as stated: when executeScaling has returned, the manager holds at most
\* the target of an executed scale_up and at least the target of an executed
\* scale_down.
C29_Original ==
    (/\ ctl.loop = "select"
     /\ metrics.LastScaleAction = TimeAt(decision.Timestamp))
        => /\ decision.Action = "scale_up" => N <= decision.TargetCount
           /\ decision.Action = "scale_down" => N >= decision.TargetCount

\* The burst events of history h that lie inside the last burst_window
\* before time t.
RecentBursts(h, t) == {i \in 1..Len(h) : h[i].t > t - BurstDetectionWindow}

\* C24 as stated: a burst-rule decision is taken only when at least three
\* burst events of the history are younger than burst_window.
C24_Original ==
    decision.Reason = "Burst pattern detected"
        => Cardinality(RecentBursts(seen.metrics.BurstHistory, seen.now)) >= 3

\* C27 as stated: the target of every scale_up and scale_down decision lies
\* in [min_tunnels, max_tunnels].
C27_Original ==
    decision.Action \in {"scale_up", "scale_down"}
        => /\ decision.TargetCount >= ScalerMinTunnels
           /\ decision.TargetCount <= ScalerMaxTunnels

\* C25 as stated: the bottleneck classification ends without a runtime
\* failure for every non-negative link speed, baseline and burst bandwidth,
\* baseline 0 and link speed 0 included.
C25_Original == probe.BottleneckLocation # "panic"

\* C30: in every state a reader of the manager can observe (GetActiveTunnels
\* and the performance stream read under tm.mu), every tunnel of the map is
\* active; a failed AddTunnel inserts nothing and a failed bring-down leaves
\* the map as it was.
C30_MapActive ==
    /\ \A id \in DOMAIN tunnels : tunnels[id].State = "active"
    /\ (last.op = "AddTunnel" /\ last.err # Nil) => tunnels = last.before
    /\ (last.op = "RemoveTunnel" /\ last.err = ErrBringDown) => tunnels = last.before

\* The performance stream is about to send the sample of a tunnel while the
\* last lifecycle call was a RemoveTunnel whose bring-down failed, so both
\* tunnels are still in the map.
C30_Witness ==
    /\ monitor.pc = "send"
    /\ last.op = "RemoveTunnel"
    /\ last.err = ErrBringDown
    /\ N = 2

====
